---- MODULE Spec2Model ----
(***************************************************************************)
(* Currency Impact Analyzer: the percentage-change / correlation / alert   *)
(* pipeline (analysis.py, alert_system.py), the data fetcher with its      *)
(* synthetic fallback (data_fetcher.py) and the driver script (app.py).    *)
(*                                                                         *)
(* Numbers.  A float is a record [t, v]: t = "num" with v the value in     *)
(* units of 0.01 (a percentage of 1.5 % is v = 150, a coefficient of 0.7   *)
(* is v = 7000 in units of 0.0001), or t in {"nan", "inf", "ninf"} for     *)
(* the IEEE specials.  Prices are small naturals that divide 10000, so     *)
(* every percentage change of the model is exact.                          *)
(*                                                                         *)
(* Tables.  A pandas DataFrame is a record [kind, index, columns, data]:   *)
(* index is the sequence of row timestamps (day ordinals), columns the     *)
(* sequence of column names, data[c][i] the cell of column c at row i.     *)
(* kind = "None" stands for Python's None passed instead of a table.       *)
(***************************************************************************)
EXTENDS Integers, Sequences, FiniteSets, TLC

VARIABLES
    pc,                   \* position of the driver script app.py
    fill_method,          \* what DataFrame.pct_change() defaults to in the installed pandas
    currency_data,        \* app.py:139
    currency_pct_change,  \* app.py:199
    alert_threshold,      \* app.py:113-123
    alerts,               \* app.py:405
    series1, series2,     \* analysis.py:26, the arguments of calculate_correlation
    aligned,              \* analysis.py:43-44, s1 and s2 after the mask, as pairs
    correlation, p_value, \* app.py:334
    corr_label, corr_color,  \* app.py:339
    raised,               \* the exception that ended the script, or "none"
    hashseed,             \* the string-hash randomisation of the running Python process
    start_date, end_date, \* app.py:71-72
    fn,                   \* the fetch function that is running
    requested,            \* data_fetcher.py:8, :119, the list of instruments asked for
    pending,              \* data_fetcher.py:26, :137, the instruments the loop has yet to visit
    all_data,             \* data_fetcher.py:24, :135
    outcomes,             \* what yf.download gave for each instrument visited
    previous,             \* the synthetic series of the call before this one
    selected_currencies,  \* app.py:86, as the codes handed to get_exchange_rates
    selected_companies,   \* app.py:104, as the codes handed to get_stock_prices
    alert_active,         \* app.py:112
    slider,               \* app.py:116, the threshold slider (0: the slider is not shown)
    stock_data,           \* app.py:163
    stock_pct_change,     \* app.py:200
    data_source,          \* app.py:62
    alert_email,          \* app.py:123
    setup_info,           \* app.py:401
    calls,                \* the calls the script has made of the functions it imports, in order
    alert_data,           \* alert_system.py:64, the record handed to send_email_alert
    recipient_email,      \* alert_system.py:64
    environ,              \* os.environ: the SMTP_* variables that are set, with their values
    msg,                  \* alert_system.py:92-111
    smtp,                 \* what became of the SMTP session of alert_system.py:114-117
    returned              \* what send_email_alert returned

fetchVars == <<hashseed, start_date, end_date, fn, requested, pending, all_data,
               outcomes, previous>>
appVars == <<selected_currencies, selected_companies, alert_active, slider,
             stock_data, stock_pct_change, data_source>>
changeVars == <<fill_method, currency_data, currency_pct_change>>
alertVars == <<alert_threshold, alerts>>
corrVars == <<series1, series2, aligned, correlation, p_value>>
labelVars == <<corr_label, corr_color>>
tabVars == <<alert_email, setup_info, calls>>
mailVars == <<alert_data, recipient_email, environ, msg, smtp, returned>>

vars == <<pc, changeVars, alertVars, corrVars, labelVars, raised, fetchVars, appVars,
          tabVars, mailVars>>

-----------------------------------------------------------------------------
(* Bounds *)

MaxDay == 3      \* timestamps are the days 1..MaxDay
MaxRows == 2     \* rows of a table drawn as input of a pure function

Days == 1..MaxDay

-----------------------------------------------------------------------------
(* Floats *)

NaN == [t |-> "nan", v |-> 0]
Inf == [t |-> "inf", v |-> 0]
NegInf == [t |-> "ninf", v |-> 0]
Num(x) == [t |-> "num", v |-> x]

isnan(x) == x.t = "nan"
isfinite(x) == x.t = "num"

\* np.abs
np_abs(x) ==
    CASE x.t = "num" -> Num(IF x.v < 0 THEN -x.v ELSE x.v)
      [] x.t = "nan" -> NaN
      [] OTHER -> Inf

\* a finite value of a library routine that the model does not compute
Defined == [t |-> "defined", v |-> 0]

\* np.sign(a - b) of IEEE floats, neither NaN
SignOfDifference(a, b) ==
    CASE a.t = "num" /\ b.t = "num" ->
             Num(IF a.v > b.v THEN 1 ELSE IF a.v < b.v THEN -1 ELSE 0)
      [] a.t = b.t -> NaN
      [] a.t = "inf" \/ b.t = "ninf" -> Num(1)
      [] OTHER -> Num(-1)

\* x > y of IEEE floats, y finite: every comparison with NaN is False
FloatGt(x, y) ==
    CASE x.t = "num" -> x.v > y
      [] x.t = "inf" -> TRUE
      [] OTHER -> FALSE

-----------------------------------------------------------------------------
(* Dates: day ordinal 1 is 2023-12-31, day 2 is 2024-01-01, and so on. *)

DateOf(d) ==
    IF d = 1 THEN [year |-> 2023, month |-> 12, day |-> 31]
             ELSE [year |-> 2024, month |-> 1, day |-> d - 1]

Digit(n) == 48 + n
Dash == 45

\* date.strftime('%Y-%m-%d'): a string is the sequence of its character codes
strftime(d) ==
    LET t == DateOf(d)
    IN  << Digit(t.year \div 1000), Digit((t.year \div 100) % 10),
           Digit((t.year \div 10) % 10), Digit(t.year % 10), Dash,
           Digit(t.month \div 10), Digit(t.month % 10), Dash,
           Digit(t.day \div 10), Digit(t.day % 10) >>

\* Python's str comparison a < b: lexicographic on the character codes
RECURSIVE StrLt(_, _)
StrLt(a, b) ==
    IF b = << >> THEN FALSE
    ELSE IF a = << >> THEN TRUE
    ELSE IF Head(a) # Head(b) THEN Head(a) < Head(b)
    ELSE StrLt(Tail(a), Tail(b))

-----------------------------------------------------------------------------
(* DataFrames *)

NoneValue == [kind |-> "None", index |-> << >>, columns |-> << >>, data |-> << >>]
EmptyFrame == [kind |-> "DataFrame", index |-> << >>, columns |-> << >>, data |-> << >>]

Frame(index, columns, data) ==
    [kind |-> "DataFrame", index |-> index, columns |-> columns, data |-> data]

\* DataFrame.empty: any axis of length 0
empty(df) == Len(df.index) = 0 \/ Len(df.columns) = 0

Range(s) == {s[i] : i \in DOMAIN s}

\* strictly increasing sequences over S of length at most n
IncSeqs(S, n) ==
    {s \in UNION {[1..k -> S] : k \in 0..n} :
        \A i \in DOMAIN s : i > 1 => s[i - 1] < s[i]}

\* sequences over S without repetition, of length at most n
DistinctSeqs(S, n) ==
    {s \in UNION {[1..k -> S] : k \in 0..n} :
        \A i, j \in DOMAIN s : i # j => s[i] # s[j]}

-----------------------------------------------------------------------------
(* analysis.py *)

\* Series.ffill(): a missing value takes the last value before it
RECURSIVE ffill(_)
ffill(col) ==
    IF Len(col) <= 1 THEN col
    ELSE LET front == ffill(SubSeq(col, 1, Len(col) - 1))
             last == col[Len(col)]
         IN  Append(front, IF isnan(last) THEN front[Len(front)] ELSE last)

\* (a / b - 1) * 100 in IEEE arithmetic, a and b non-negative prices or NaN,
\* the result in units of 0.01 %; the change between two samples of a walk
\* is finite and is not computed
pct(a, b) ==
    IF isnan(a) \/ isnan(b) THEN NaN
    ELSE IF a.t = "sample" \/ b.t = "sample" THEN Defined
    ELSE IF b.v = 0 THEN (IF a.v = 0 THEN NaN ELSE Inf)
    ELSE Num(((a.v - b.v) * 10000) \div b.v)

\* Series.pct_change(): the column is padded first where the pandas default
\* is fill_method='pad'; the first row has no predecessor
pct_change_column(col, fill) ==
    LET filled == IF fill = "pad" THEN ffill(col) ELSE col
    IN  [i \in DOMAIN col |-> IF i = 1 THEN NaN ELSE pct(filled[i], filled[i - 1])]

\* the positions i.. of the rows of df without a NaN cell, in order
RECURSIVE CompleteRows(_, _)
CompleteRows(df, i) ==
    IF i > Len(df.index) THEN << >>
    ELSE (IF \A c \in DOMAIN df.data : ~isnan(df.data[c][i]) THEN << i >> ELSE << >>)
             \o CompleteRows(df, i + 1)

\* the rows of df at the given positions
TakeRows(df, rows) ==
    Frame([k \in DOMAIN rows |-> df.index[rows[k]]],
          df.columns,
          [c \in DOMAIN df.data |-> [k \in DOMAIN rows |-> df.data[c][rows[k]]]])

\* DataFrame.dropna(): a row goes when any of its cells is NaN
dropna(df) == TakeRows(df, CompleteRows(df, 1))

calculate_percentage_changes(price_data, fill) ==
    IF price_data.kind = "None" \/ empty(price_data)
    THEN EmptyFrame
    ELSE dropna(Frame(price_data.index, price_data.columns,
                      [c \in DOMAIN price_data.data |->
                          pct_change_column(price_data.data[c], fill)]))

\* a pandas Series: the timestamps and the values at them
Series(index, values) == [kind |-> "Series", index |-> index, values |-> values]
NoneSeries == [kind |-> "None", index |-> << >>, values |-> << >>]

\* df[c]
Column(df, c) == Series(df.index, df.data[c])

\* series1.align(series2, join='inner') and the NaN mask of analysis.py:42-44,
\* from timestamp d on: the pairs (s1[d], s2[d]) at the common timestamps
\* where neither value is NaN
RECURSIVE AlignedPairs(_, _, _)
AlignedPairs(a, b, d) ==
    IF d > MaxDay THEN << >>
    ELSE LET rest == AlignedPairs(a, b, d + 1)
         IN  IF \E i \in DOMAIN a.index, j \in DOMAIN b.index :
                    a.index[i] = d /\ b.index[j] = d
             THEN LET i == CHOOSE i \in DOMAIN a.index : a.index[i] = d
                      j == CHOOSE j \in DOMAIN b.index : b.index[j] = d
                  IN  IF isnan(a.values[i]) \/ isnan(b.values[j])
                      THEN rest
                      ELSE << [date |-> d, x |-> a.values[i], y |-> b.values[j]] >> \o rest
             ELSE rest

\* the sums a Pearson coefficient is made of, over finite pairs
RECURSIVE Moments(_)
Moments(pairs) ==
    IF pairs = << >>
    THEN [n |-> 0, sx |-> 0, sy |-> 0, sxx |-> 0, syy |-> 0, sxy |-> 0]
    ELSE LET m == Moments(Tail(pairs))
             x == Head(pairs).x.v
             y == Head(pairs).y.v
         IN  [n |-> m.n + 1, sx |-> m.sx + x, sy |-> m.sy + y,
              sxx |-> m.sxx + x * x, syy |-> m.syy + y * y, sxy |-> m.sxy + x * y]

\* the Pearson coefficient of finite, non-constant x and y, cut to two
\* decimals, in units of 0.0001
PearsonCoefficient(pairs) ==
    LET m == Moments(pairs)
        cov == m.n * m.sxy - m.sx * m.sy
        vx == m.n * m.sxx - m.sx * m.sx
        vy == m.n * m.syy - m.sy * m.sy
        k == CHOOSE k \in 0..100 :
                 /\ k * k * vx * vy <= cov * cov * 10000
                 /\ k = 100 \/ (k + 1) * (k + 1) * vx * vy > cov * cov * 10000
    IN  Num((IF cov < 0 THEN -1 ELSE 1) * k * 100)

Result(c, p) == [raised |-> "none", correlation |-> c, p_value |-> p]
Raise(e) == [raised |-> e, correlation |-> NaN, p_value |-> NaN]

\* the coefficients of series of random walks: one of each strength
SampleCoefficients == {-8000, 0, 5000}

\* stats.pearsonr(s1, s2), pairs without NaN: what the call can give.  Fewer
\* than two pairs are refused with a ValueError; a constant input gives (nan, nan); two pairs give the product of
\* the signs of the two differences with p = 1; an infinite value among
\* three or more pairs makes the norms non-finite, which the library reports
\* as a ValueError or as (nan, nan), depending on its version.  The changes
\* of a walk are finite and differ from each other; their coefficient is
\* some value of [-1, 1].
pearsonr(pairs) ==
    IF Len(pairs) < 2 THEN {Raise("ValueError")}
    ELSE IF \/ \A i \in DOMAIN pairs : pairs[i].x = pairs[1].x /\ pairs[i].x.t # "defined"
            \/ \A i \in DOMAIN pairs : pairs[i].y = pairs[1].y /\ pairs[i].y.t # "defined"
    THEN {Result(NaN, NaN)}
    ELSE IF \E i \in DOMAIN pairs : pairs[i].x.t = "defined" \/ pairs[i].y.t = "defined"
    THEN (IF Len(pairs) = 2
          THEN {Result(Num(10000), Num(10000)), Result(Num(-10000), Num(10000))}
          ELSE {Result(Num(c), Defined) : c \in SampleCoefficients})
    ELSE IF Len(pairs) = 2
    THEN {Result(Num(SignOfDifference(pairs[2].x, pairs[1].x).v
                        * SignOfDifference(pairs[2].y, pairs[1].y).v * 10000),
                 Num(10000))}
    ELSE IF \E i \in DOMAIN pairs : ~isfinite(pairs[i].x) \/ ~isfinite(pairs[i].y)
    THEN {Raise("ValueError"), Result(NaN, NaN)}
    ELSE {Result(PearsonCoefficient(pairs), Defined)}

\* mutation of enough_points: one pair is taken for enough
enough_points_off_by_one(pairs) == Len(pairs) > 0

\* len(s1) > 1
enough_points(pairs) == Len(pairs) > 1

\* the set of results of calculate_correlation(series1, series2)
calculate_correlation(a, b) ==
    IF a.kind = "None" THEN {Raise("AttributeError")}
    ELSE IF b.kind = "None" THEN {Raise("TypeError")}
    ELSE LET pairs == AlignedPairs(a, b, 1)
         IN  IF enough_points(pairs)
             THEN pearsonr(pairs)
             ELSE {Result(NaN, NaN)}

\* Python's None passed where a coefficient is expected
NoneFloat == [t |-> "none", v |-> 0]

\* a label is the sequence of the words of the returned string
Labelled(label, color) == [raised |-> "none", label |-> label, color |-> color]

\* mutation of strength: the boundaries 0.7 and 0.3 fall to the weaker side
strength_exclusive(abs_corr) ==
    IF abs_corr > 7000 THEN "Strong"
    ELSE IF abs_corr > 3000 THEN "Moderate"
    ELSE "Weak"

\* analysis.py:68-75; a coefficient is in units of 0.0001
strength(abs_corr) ==
    IF abs_corr >= 7000 THEN "Strong"
    ELSE IF abs_corr >= 3000 THEN "Moderate"
    ELSE "Weak"

get_correlation_label(c) ==
    IF c.t = "none"
    THEN [raised |-> "TypeError", label |-> << >>, color |-> ""]
    ELSE IF isnan(c) THEN Labelled(<<"Insufficient", "data">>, "gray")
    ELSE LET abs_corr == np_abs(c).v
             positive == FloatGt(c, 0)
             color == CASE strength(abs_corr) = "Strong" ->
                               (IF positive THEN "green" ELSE "red")
                        [] strength(abs_corr) = "Moderate" ->
                               (IF positive THEN "blue" ELSE "orange")
                        [] OTHER -> "gray"
             direction == IF positive THEN "Positive" ELSE "Negative"
         IN  Labelled(<<strength(abs_corr), direction>>, color)

-----------------------------------------------------------------------------
(* data_fetcher.py *)

\* pd.date_range(start=start_date, end=end_date): every day, both ends included
date_range(start, end) == [i \in 1..(end - start + 1) |-> start + i - 1]

\* the closing price the provider has for an instrument on a day, in 0.01
Close(id, d) == Num(100 * (1 + (d % 2)))

\* the seed argument of np.random.seed: a literal, or (hash(id) + plus) % 100,
\* which depends on the hash randomisation of the process
LiteralSeed(n) == [hash |-> "", plus |-> n, hashseed |-> 0]
HashSeed(id, plus, hs) == [hash |-> id, plus |-> plus, hashseed |-> hs]

\* the base_value chains of data_fetcher.py:60-70, :96-104, :167-183 and
\* :209-225, in 0.01; no identifier of the model contains another, so the
\* substring tests are equalities
base_value(f, id, reason) ==
    IF f = "get_exchange_rates"
    THEN CASE id = "USD-INR" -> 8300
           [] id = "EUR-INR" -> 9000
           [] id = "JPY-INR" -> 55
           [] id = "CHF-INR" -> 9300
           [] OTHER -> IF reason = "empty" THEN 7500 ELSE 8000
    ELSE CASE id = "TCS.NS" -> 350000
           [] id = "INFY.NS" -> 150000
           [] id = "WIPRO.NS" -> 40000
           [] id = "HCLTECH.NS" -> 110000
           [] id = "TECHM.NS" -> 120000
           [] id = "LTTS.NS" -> 380000
           [] id = "MINDTREE.NS" -> 300000
           [] id = "MPHASIS.NS" -> 220000
           [] OTHER -> 100000

\* the random walk a fallback branch draws: the seed, the mean (loc) and the
\* volatility (scale) of the daily returns in 0.0001, the base value, and the
\* end of the linear trend multiplier in 0.0001 with the number of days it is
\* spread over (span; 0 where the branch applies no trend)
walk(f, id, reason, num_days, hs) ==
    CASE f = "get_exchange_rates" /\ reason = "empty" ->
             [seed |-> LiteralSeed(42), loc |-> 0, scale |-> 200,
              base |-> base_value(f, id, reason), trend |-> 500, span |-> num_days]
      [] f = "get_exchange_rates" /\ reason = "error" ->
             [seed |-> HashSeed(id, 0, hs), loc |-> 0, scale |-> 150,
              base |-> base_value(f, id, reason), trend |-> 300, span |-> num_days]
      [] f = "get_stock_prices" /\ reason = "empty" ->
             [seed |-> HashSeed(id, 0, hs), loc |-> 5, scale |-> 300,
              base |-> base_value(f, id, reason), trend |-> 0, span |-> 0]
      [] OTHER ->
             [seed |-> HashSeed(id, 1, hs), loc |-> -1, scale |-> 250,
              base |-> base_value(f, id, reason), trend |-> 0, span |-> 0]

\* values[i - 1] of a walk: base * exp(r_1 + ... + r_i) * (1 + trend_i), a
\* finite positive price.  The draws r_1.. are a function of the seed, loc
\* and scale; the model keeps the value as this term.
Sample(w, i) == [t |-> "sample", v |-> i, walk |-> w]

\* all_data[id] = column: a new column goes last, an old one is replaced
SetColumn(df, id, column) ==
    Frame(df.index,
          IF id \in Range(df.columns) THEN df.columns ELSE Append(df.columns, id),
          [c \in (DOMAIN df.data) \cup {id} |-> IF c = id THEN column ELSE df.data[c]])

\* data_fetcher.py:42-50 and :148-156: the download has rows
on_data(df, id, index) ==
    LET table == IF empty(df) THEN Frame(index, << >>, << >>) ELSE df
    IN  SetColumn(table, id,
                  [i \in DOMAIN table.index |->
                      IF table.index[i] \in Range(index)
                      THEN Close(id, table.index[i]) ELSE NaN])

\* the fallback of a branch: the walk over the rows the table has
fallback(df, f, id, reason, start, end, hs) ==
    LET table == IF empty(df) THEN Frame(date_range(start, end), << >>, << >>) ELSE df
        num_days == Len(table.index)
        w == walk(f, id, reason, num_days, hs)
    IN  SetColumn(table, id, [i \in 1..num_days |-> Sample(w, i)])

\* mutation of on_empty: an instrument without data is skipped
on_empty_skip(df, f, id, start, end, hs) == df

\* data_fetcher.py:51-86 and :157-199: the download is empty
on_empty(df, f, id, start, end, hs) == fallback(df, f, id, "empty", start, end, hs)

\* data_fetcher.py:88-114 and :201-236: the download raised
on_error(df, f, id, start, end, hs) == fallback(df, f, id, "error", start, end, hs)

\* what yf.download can give for one instrument: closing prices for the
\* days of the index, no rows, or an exception
Download(kind, index) == [kind |-> kind, index |-> index]

\* the loop of data_fetcher.py:26-114 and :137-236 over ids, from table df,
\* with the download each instrument gets
RECURSIVE fetch_loop(_, _, _, _, _, _, _)
fetch_loop(df, f, ids, downloads, start, end, hs) ==
    IF ids = << >> THEN df
    ELSE LET id == Head(ids)
             got == downloads[id]
             table == CASE got.kind = "data" -> on_data(df, id, got.index)
                        [] got.kind = "empty" -> on_empty(df, f, id, start, end, hs)
                        [] OTHER -> on_error(df, f, id, start, end, hs)
         IN  fetch_loop(table, f, Tail(ids), downloads, start, end, hs)

get_exchange_rates(currency_pairs, downloads, start, end, hs) ==
    fetch_loop(EmptyFrame, "get_exchange_rates", currency_pairs, downloads, start, end, hs)

get_stock_prices(stock_tickers, downloads, start, end, hs) ==
    fetch_loop(EmptyFrame, "get_stock_prices", stock_tickers, downloads, start, end, hs)

-----------------------------------------------------------------------------
(* alert_system.py *)

\* alert_system.py:21-25
setup_alert(threshold, email, now) ==
    [threshold |-> threshold, email |-> email, setup_time |-> now]

\* no alert configuration has been made
NoConfig == [threshold |-> 0, email |-> "", setup_time |-> ""]

\* the dict appended at alert_system.py:52-57
AlertRecord(currency, date, change) ==
    [currency |-> currency,
     date |-> strftime(date),
     change |-> change,
     direction |-> IF FloatGt(change, 0) THEN "increase" ELSE "decrease"]

\* mutation of exceeds: the comparison is not strict
exceeds_or_equals(change, threshold) ==
    FloatGt(np_abs(change), threshold - 1)

\* np.abs(currency_data[currency]) > threshold, for one cell
exceeds(change, threshold) ==
    FloatGt(np_abs(change), threshold)

\* the inner loop over alert_dates of one column, rows i..Len(index); the
\* timestamps of an index are distinct, so .loc[date, currency] is one cell
RECURSIVE ScanColumn(_, _, _, _)
ScanColumn(df, currency, threshold, i) ==
    IF i > Len(df.index) THEN << >>
    ELSE LET change == df.data[currency][i]
             rest == ScanColumn(df, currency, threshold, i + 1)
         IN  IF exceeds(change, threshold)
             THEN << AlertRecord(currency, df.index[i], change) >> \o rest
             ELSE rest

\* the outer loop over currency_data.columns, columns k..Len(columns)
RECURSIVE ScanColumns(_, _, _)
ScanColumns(df, threshold, k) ==
    IF k > Len(df.columns) THEN << >>
    ELSE ScanColumn(df, df.columns[k], threshold, 1)
             \o ScanColumns(df, threshold, k + 1)

\* mutation of InsertDesc: records of one date end up in reverse scan order
RECURSIVE InsertDescUnstable(_, _)
InsertDescUnstable(sorted, x) ==
    IF sorted = << >> THEN << x >>
    ELSE IF ~StrLt(x.date, Head(sorted).date)
         THEN << x >> \o sorted
         ELSE << Head(sorted) >> \o InsertDescUnstable(Tail(sorted), x)

\* one insertion of list.sort(key=..., reverse=True): x goes behind every
\* element whose key is greater than or equal to its own (the sort is stable)
RECURSIVE InsertDesc(_, _)
InsertDesc(sorted, x) ==
    IF sorted = << >> THEN << x >>
    ELSE IF StrLt(Head(sorted).date, x.date)
         THEN << x >> \o sorted
         ELSE << Head(sorted) >> \o InsertDesc(Tail(sorted), x)

RECURSIVE SortByDateDesc(_)
SortByDateDesc(s) ==
    IF s = << >> THEN << >>
    ELSE InsertDesc(SortByDateDesc(SubSeq(s, 1, Len(s) - 1)), s[Len(s)])

check_alerts(df, threshold) ==
    IF df.kind = "None" \/ empty(df)
    THEN << >>
    ELSE SortByDateDesc(ScanColumns(df, threshold, 1))

\* Python's None passed where a string is expected
NoneString == "None"

\* bool(s) of a string or None
Truthy(s) == s # "" /\ s # NoneString

\* a string of the environment is the sequence of its character codes
RECURSIVE DigitsValue(_)
DigitsValue(s) ==
    IF s = << >> THEN 0
    ELSE 10 * DigitsValue(SubSeq(s, 1, Len(s) - 1)) + (s[Len(s)] - Digit(0))

\* int(s) of a string without sign, blanks or underscores: its decimal
\* value, or a ValueError when it is empty or holds another character
int(s) ==
    IF s = << >> \/ \E i \in DOMAIN s : s[i] \notin Digit(0)..Digit(9)
    THEN [raised |-> "ValueError", v |-> 0]
    ELSE [raised |-> "none", v |-> DigitsValue(s)]

\* os.getenv(name, default)
getenv(env, name, default) == IF name \in DOMAIN env THEN env[name] ELSE default

\* f"{abs(change):.2f}": the magnitude with two decimals, as its whole part
\* and its hundredths; an infinite change prints as 'inf'
FormatMagnitude(change) ==
    LET a == np_abs(change)
    IN  IF a.t = "num" THEN [whole |-> a.v \div 100, hundredths |-> a.v % 100, text |-> ""]
        ELSE [whole |-> 0, hundredths |-> 0, text |-> a.t]

\* the keys of alert_data the f-strings of alert_system.py:95-109 read
SubjectKeys == {"currency", "direction", "change"}
BodyKeys == {"currency", "direction", "change", "date", "threshold"}

\* alert_system.py:92-111
RenderMessage(record, to, smtp_username) ==
    [From |-> smtp_username,
     To |-> to,
     Subject |-> [currency |-> record.currency,
                  direction |-> record.direction,
                  magnitude |-> FormatMagnitude(record.change)],
     body |-> [currency |-> record.currency,
               direction |-> record.direction,
               magnitude |-> FormatMagnitude(record.change),
               date |-> record.date,
               threshold |-> record.threshold]]

\* no message has been made
NoMessage ==
    LET nothing == [whole |-> 0, hundredths |-> 0, text |-> ""]
    IN  [From |-> "", To |-> "",
         Subject |-> [currency |-> "", direction |-> "", magnitude |-> nothing],
         body |-> [currency |-> "", direction |-> "", magnitude |-> nothing,
                   date |-> << >>, threshold |-> 0]]

\* how a call ends: the exception it raised or the value it returned ('True',
\* 'False'), the message it made, and what became of the SMTP session
Sent(e, value, message, session) ==
    [raised |-> e, returned |-> value, msg |-> message, smtp |-> session]

\* send_email_alert(alert_data, recipient_email), here (record, to), in an environment env, with a
\* mail server that accepts the message (transport_ok) or fails
send_email_alert(record, to, env, transport_ok) ==
    IF ~Truthy(to) THEN Sent("none", "False", NoMessage, "none")
    ELSE LET smtp_server == getenv(env, "SMTP_SERVER", "")
             port_set == "SMTP_PORT" \in DOMAIN env
             smtp_port == IF port_set THEN int(env["SMTP_PORT"])
                          ELSE [raised |-> "none", v |-> 587]
             smtp_username == getenv(env, "SMTP_USERNAME", "")
             smtp_password == getenv(env, "SMTP_PASSWORD", "")
         IN  IF smtp_port.raised # "none"
             THEN Sent(smtp_port.raised, "none", NoMessage, "none")
             ELSE IF ~(Truthy(smtp_server) /\ smtp_port.v # 0
                       /\ Truthy(smtp_username) /\ Truthy(smtp_password))
             THEN Sent("none", "False", NoMessage, "none")
             ELSE IF ~(SubjectKeys \cup BodyKeys \subseteq DOMAIN record)
             THEN Sent("none", "False", NoMessage, "none")
             ELSE LET message == RenderMessage(record, to, smtp_username)
                  IN  IF transport_ok
                      THEN Sent("none", "True", message, "sent")
                      ELSE Sent("none", "False", message, "failed")

-----------------------------------------------------------------------------
(* Inputs of the pure functions *)

Currencies == {"USD-INR", "EUR-INR"}

\* percentage changes: undefined, and values below, at and above a threshold
PctValues == {NaN, Num(-150), Num(100), Num(200)}
Thresholds == {100, 150}

\* prices: zero, two positive prices, and a price missing from the table
\* percentage changes of the two series handed to calculate_correlation
SeriesValues == {NaN, Inf, Num(-3), Num(2)}

\* coefficients: every multiple of 0.0001 in [-1, 1], and undefined
Coefficients == {NaN} \cup {Num(v) : v \in -10000..10000}

IsSeries(sr, values, n) ==
    \E index \in IncSeqs(Days, n) :
        \E data \in [DOMAIN index -> values] : sr = Series(index, data)

PriceValues == {NaN, Num(0), Num(1), Num(2)}

Tickers == {"TCS.NS", "INFY.NS"}
HashSeeds == {0, 1}
FillMethods == {"pad", "None"}

\* df is a table over the given columns and values, of at most n rows
IsFrame(df, names, values, n) ==
    \E index \in IncSeqs(Days, n), columns \in DistinctSeqs(names, Cardinality(names)) :
        \E data \in [Range(columns) -> [DOMAIN index -> values]] :
            df = Frame(index, columns, data)

-----------------------------------------------------------------------------
(* The parts of the state a specification does not use *)

NoCorrelation ==
    /\ series1 = NoneSeries
    /\ series2 = NoneSeries
    /\ aligned = << >>
    /\ correlation = NaN
    /\ p_value = NaN
    /\ corr_label = << >>
    /\ corr_color = ""

NoFetch ==
    /\ hashseed = 0
    /\ start_date = 1
    /\ end_date = 1
    /\ fn = ""
    /\ requested = << >>
    /\ pending = << >>
    /\ all_data = EmptyFrame
    /\ outcomes = << >>
    /\ previous = {}

\* no send_email_alert call is in progress
NoMail ==
    /\ alert_data = << >>
    /\ recipient_email = ""
    /\ environ = << >>
    /\ msg = NoMessage
    /\ smtp = "none"
    /\ returned = "none"

NoApp ==
    /\ NoMail
    /\ alert_email = ""
    /\ setup_info = NoConfig
    /\ calls = << >>
    /\ selected_currencies = << >>
    /\ selected_companies = << >>
    /\ alert_active = FALSE
    /\ slider = 0
    /\ stock_data = EmptyFrame
    /\ stock_pct_change = EmptyFrame
    /\ data_source = ""

NoTables ==
    /\ fill_method = "pad"
    /\ currency_data = EmptyFrame
    /\ currency_pct_change = EmptyFrame
    /\ alert_threshold = 0
    /\ alerts = << >>

-----------------------------------------------------------------------------
(* Specification of the alert scan: any table, any threshold *)

InitAlerts ==
    /\ NoApp
    /\ NoFetch
    /\ pc = "scan"
    /\ fill_method \in FillMethods
    /\ currency_data = EmptyFrame
    /\ IsFrame(currency_pct_change, Currencies, PctValues, MaxRows)
    /\ alert_threshold \in Thresholds
    /\ alerts = << >>
    /\ NoCorrelation
    /\ raised = "none"

CheckAlerts ==
    /\ pc = "scan"
    /\ alerts' = check_alerts(currency_pct_change, alert_threshold)
    /\ pc' = "done"
    /\ UNCHANGED <<tabVars, mailVars, fetchVars, appVars, changeVars, alert_threshold, corrVars, labelVars, raised>>

NextAlerts == CheckAlerts

SpecAlerts == InitAlerts /\ [][NextAlerts]_vars

-----------------------------------------------------------------------------
(* Specification of the percentage-change transform: any price table *)

InitChanges ==
    /\ NoApp
    /\ NoFetch
    /\ pc = "changes"
    /\ fill_method \in FillMethods
    /\ IsFrame(currency_data, Currencies, PriceValues, MaxDay)
    /\ currency_pct_change = EmptyFrame
    /\ alert_threshold = 0
    /\ alerts = << >>
    /\ NoCorrelation
    /\ raised = "none"

PercentageChanges ==
    /\ pc = "changes"
    /\ currency_pct_change' = calculate_percentage_changes(currency_data, fill_method)
    /\ pc' = "done"
    /\ UNCHANGED <<tabVars, mailVars, fetchVars, appVars, fill_method, currency_data, alertVars, corrVars, labelVars, raised>>

NextChanges == PercentageChanges

SpecChanges == InitChanges /\ [][NextChanges]_vars

-----------------------------------------------------------------------------
(* Specification of the correlation engine: any two series, then the label *)

InitCorrelation ==
    /\ NoApp
    /\ NoFetch
    /\ pc = "correlate"
    /\ NoTables
    /\ IsSeries(series1, SeriesValues, MaxDay)
    /\ IsSeries(series2, SeriesValues, MaxDay)
    /\ aligned = << >>
    /\ correlation = NaN
    /\ p_value = NaN
    /\ corr_label = << >>
    /\ corr_color = ""
    /\ raised = "none"

\* app.py:334-337
Correlate ==
    /\ pc = "correlate"
    /\ \E r \in calculate_correlation(series1, series2) :
          /\ raised' = r.raised
          /\ correlation' = r.correlation
          /\ p_value' = r.p_value
          /\ pc' = IF r.raised = "none" THEN "label" ELSE "done"
    /\ aligned' = IF series1.kind = "None" \/ series2.kind = "None"
                  THEN << >> ELSE AlignedPairs(series1, series2, 1)
    /\ UNCHANGED <<tabVars, mailVars, fetchVars, appVars, changeVars, alertVars, series1, series2, labelVars>>

\* app.py:339
Label ==
    /\ pc = "label"
    /\ LET r == get_correlation_label(correlation)
       IN  /\ raised' = r.raised
           /\ corr_label' = r.label
           /\ corr_color' = r.color
    /\ pc' = "done"
    /\ UNCHANGED <<tabVars, mailVars, fetchVars, appVars, changeVars, alertVars, corrVars>>

NextCorrelation == Correlate \/ Label

SpecCorrelation == InitCorrelation /\ [][NextCorrelation]_vars

-----------------------------------------------------------------------------
(* Specification of the label: any coefficient *)

InitLabel ==
    /\ NoApp
    /\ NoFetch
    /\ pc = "label"
    /\ NoTables
    /\ series1 = NoneSeries
    /\ series2 = NoneSeries
    /\ aligned = << >>
    /\ correlation \in Coefficients
    /\ p_value = NaN
    /\ corr_label = << >>
    /\ corr_color = ""
    /\ raised = "none"

NextLabel == Label

SpecLabel == InitLabel /\ [][NextLabel]_vars

-----------------------------------------------------------------------------
(* Specification of one call of a fetch function, one loop iteration a step *)

NoAnalysis ==
    /\ NoTables
    /\ NoCorrelation
    /\ raised = "none"

InitFetch ==
    /\ NoApp
    /\ pc = "call"
    /\ NoAnalysis
    /\ hashseed \in HashSeeds
    /\ start_date \in Days
    /\ end_date \in Days
    /\ start_date <= end_date
    /\ fn = ""
    /\ requested = << >>
    /\ pending = << >>
    /\ all_data = EmptyFrame
    /\ outcomes = << >>
    /\ previous = {}

Enter(f, ids) ==
    /\ pc = "call"
    /\ fn' = f
    /\ requested' = ids
    /\ pending' = ids
    /\ all_data' = EmptyFrame
    /\ outcomes' = << >>
    /\ pc' = "loop"
    /\ UNCHANGED <<tabVars, mailVars, appVars, changeVars, alertVars, corrVars, labelVars, raised,
                   hashseed, start_date, end_date, previous>>

\* data_fetcher.py:8-24
CallExchangeRates ==
    \E ids \in DistinctSeqs(Currencies, Cardinality(Currencies)) :
        Enter("get_exchange_rates", ids)

\* data_fetcher.py:119-135
CallStockPrices ==
    \E ids \in DistinctSeqs(Tickers, Cardinality(Tickers)) :
        Enter("get_stock_prices", ids)

Visit(table, outcome) ==
    /\ all_data' = table
    /\ outcomes' = [id \in (DOMAIN outcomes) \cup {Head(pending)} |->
                       IF id = Head(pending) THEN outcome ELSE outcomes[id]]
    /\ pending' = Tail(pending)
    /\ UNCHANGED <<tabVars, mailVars, pc, appVars, changeVars, alertVars, corrVars, labelVars, raised,
                   hashseed, start_date, end_date, fn, requested, previous>>

\* the download gives the closing prices of some days of the range
DownloadData ==
    /\ pc = "loop"
    /\ pending # << >>
    /\ \E index \in IncSeqs(start_date..end_date, MaxDay) :
          /\ index # << >>
          /\ Visit(on_data(all_data, Head(pending), index), "data")

\* the download gives no rows
DownloadEmpty ==
    /\ pc = "loop"
    /\ pending # << >>
    /\ Visit(on_empty(all_data, fn, Head(pending), start_date, end_date, hashseed),
             "empty")

\* the download raises
DownloadError ==
    /\ pc = "loop"
    /\ pending # << >>
    /\ Visit(on_error(all_data, fn, Head(pending), start_date, end_date, hashseed),
             "error")

\* data_fetcher.py:116, :238
Return ==
    /\ pc = "loop"
    /\ pending = << >>
    /\ pc' = "returned"
    /\ UNCHANGED <<tabVars, mailVars, appVars, changeVars, alertVars, corrVars, labelVars, raised, fetchVars>>

NextFetch ==
    \/ CallExchangeRates
    \/ CallStockPrices
    \/ DownloadData
    \/ DownloadEmpty
    \/ DownloadError
    \/ Return

SpecFetch == InitFetch /\ [][NextFetch]_vars

-----------------------------------------------------------------------------
(* Specification of two calls of the fetch functions over one date range,  *)
(* in one Python process or with a restart of the process between them     *)

\* the fallback series of the table being built, with the arguments and the
\* reason they were generated for
SyntheticSeries ==
    {[fn |-> fn, id |-> id, reason |-> outcomes[id],
      index |-> all_data.index, values |-> all_data.data[id]] :
        id \in {c \in DOMAIN outcomes : outcomes[c] # "data"}}

\* the caller keeps the result and is about to call again
CallAgain ==
    /\ pc = "returned"
    /\ previous = {}
    /\ previous' = SyntheticSeries
    /\ pc' = "call"
    /\ UNCHANGED <<tabVars, mailVars, appVars, changeVars, alertVars, corrVars, labelVars, raised, hashseed,
                   start_date, end_date, fn, requested, pending, all_data, outcomes>>

\* the application is restarted: a new process has its own hash randomisation
Restart ==
    /\ pc = "returned"
    /\ previous = {}
    /\ previous' = SyntheticSeries
    /\ hashseed' \in HashSeeds
    /\ pc' = "call"
    /\ UNCHANGED <<tabVars, mailVars, appVars, changeVars, alertVars, corrVars, labelVars, raised,
                   start_date, end_date, fn, requested, pending, all_data, outcomes>>

NextRefetch == NextFetch \/ CallAgain \/ Restart

SpecRefetch == InitFetch /\ [][NextRefetch]_vars

\* two calls in one Python process
NextSameProcess == NextFetch \/ CallAgain

SpecSameProcess == InitFetch /\ [][NextSameProcess]_vars

-----------------------------------------------------------------------------
(* Specification of one run of the script app.py *)

RealTime == "Real-time data from Yahoo Finance"
Simulated == "Simulated data (live data unavailable)"

\* the provider has prices for trading days only: the odd days
TradingDays(start, end) ==
    LET days == {d \in start..end : d % 2 = 1}
    IN  CHOOSE index \in IncSeqs(start..end, MaxDay) : Range(index) = days

\* the downloads the provider can answer a run's requests with
Downloads(ids, start, end) ==
    [Range(ids) ->
        {Download("empty", << >>), Download("error", << >>)}
            \cup (IF TradingDays(start, end) = << >> THEN {}
                  ELSE {Download("data", TradingDays(start, end))})]

\* what the text input of app.py:124 holds; the name is not bound when the
\* checkbox is off
Emails == {"user@example.com"}
Unbound == "unbound"

\* datetime.now().strftime('%Y-%m-%d %H:%M:%S') at the time of the run
Clock == {"2024-01-05 09:00:00"}

InitApp ==
    /\ pc = "dates"
    /\ fill_method \in FillMethods
    /\ hashseed \in HashSeeds
    /\ start_date \in Days
    /\ end_date \in Days
    /\ selected_currencies \in DistinctSeqs(Currencies, Cardinality(Currencies))
    /\ selected_companies \in DistinctSeqs(Tickers, Cardinality(Tickers))
    /\ alert_active \in BOOLEAN
    /\ slider \in (IF alert_active THEN Thresholds ELSE {0})
    /\ alert_email \in (IF alert_active THEN Emails ELSE {Unbound})
    /\ data_source = RealTime
    /\ currency_data = EmptyFrame
    /\ stock_data = EmptyFrame
    /\ currency_pct_change = EmptyFrame
    /\ stock_pct_change = EmptyFrame
    /\ alert_threshold = 0
    /\ alerts = << >>
    /\ setup_info = NoConfig
    /\ calls = << >>
    /\ NoCorrelation
    /\ NoMail
    /\ raised = "none"
    /\ fn = ""
    /\ requested = << >>
    /\ pending = << >>
    /\ all_data = EmptyFrame
    /\ outcomes = << >>
    /\ previous = {}

\* mutation of start_after_end: a range that ends the day before it starts
\* is let through
start_after_end_by_two(start, end) == start > end + 1

\* app.py:74
start_after_end(start, end) == start > end

\* app.py:74-76
CheckDates ==
    /\ pc = "dates"
    /\ pc' = IF start_after_end(start_date, end_date) THEN "stopped" ELSE "sidebar"
    /\ UNCHANGED <<tabVars, mailVars, appVars, changeVars, alertVars, corrVars, labelVars, raised, fetchVars>>

\* app.py:112-124
AlertSidebar ==
    /\ pc = "sidebar"
    /\ alert_threshold' = IF alert_active THEN slider ELSE 0
    /\ pc' = "currencies"
    /\ UNCHANGED <<tabVars, mailVars, appVars, changeVars, alerts, corrVars, labelVars, raised, fetchVars>>

\* the data_source loops of app.py:151-155 and :174-178
source_label(label, codes, df) ==
    IF \E k \in DOMAIN codes : codes[k] \notin Range(df.columns)
    THEN Simulated ELSE label

Record(downloads) ==
    [id \in (DOMAIN outcomes) \cup (DOMAIN downloads) |->
        IF id \in DOMAIN downloads THEN downloads[id].kind ELSE outcomes[id]]

\* app.py:137-159
LoadCurrencies ==
    /\ pc = "currencies"
    /\ calls' = Append(calls, [fn |-> "get_exchange_rates", start |-> start_date,
                               end |-> end_date])
    /\ \E downloads \in Downloads(selected_currencies, start_date, end_date) :
          LET df == get_exchange_rates(selected_currencies, downloads,
                                       start_date, end_date, hashseed)
          IN  /\ currency_data' = df
              /\ outcomes' = Record(downloads)
              /\ IF empty(df)
                 THEN pc' = "stopped" /\ UNCHANGED data_source
                 ELSE /\ pc' = "stocks"
                      /\ data_source' = source_label(RealTime, selected_currencies, df)
    /\ UNCHANGED <<mailVars, alert_email, setup_info, selected_currencies,
                   selected_companies, alert_active, slider,
                   stock_data, stock_pct_change, fill_method, currency_pct_change,
                   alertVars, corrVars, labelVars, raised, hashseed, start_date,
                   end_date, fn, requested, pending, all_data, previous>>

\* app.py:161-182
LoadStocks ==
    /\ pc = "stocks"
    /\ calls' = Append(calls, [fn |-> "get_stock_prices", start |-> start_date,
                               end |-> end_date])
    /\ \E downloads \in Downloads(selected_companies, start_date, end_date) :
          LET df == get_stock_prices(selected_companies, downloads,
                                     start_date, end_date, hashseed)
          IN  /\ stock_data' = df
              /\ outcomes' = Record(downloads)
              /\ IF empty(df)
                 THEN pc' = "stopped" /\ UNCHANGED data_source
                 ELSE /\ pc' = "changes"
                      /\ data_source' = source_label(data_source, selected_companies, df)
    /\ UNCHANGED <<mailVars, alert_email, setup_info, selected_currencies,
                   selected_companies, alert_active, slider,
                   stock_pct_change, changeVars, alertVars, corrVars, labelVars,
                   raised, hashseed, start_date, end_date, fn, requested, pending,
                   all_data, previous>>

\* app.py:198-200
CalculateChanges ==
    /\ pc = "changes"
    /\ calls' = calls \o << [fn |-> "calculate_percentage_changes"],
                            [fn |-> "calculate_percentage_changes"] >>
    /\ currency_pct_change' = calculate_percentage_changes(currency_data, fill_method)
    /\ stock_pct_change' = calculate_percentage_changes(stock_data, fill_method)
    /\ pc' = "tabs"
    /\ UNCHANGED <<mailVars, alert_email, setup_info, selected_currencies,
                   selected_companies, alert_active, slider,
                   stock_data, data_source, fill_method, currency_data, alertVars,
                   corrVars, labelVars, raised, fetchVars>>

\* what the loop of app.py:332-345 has shown last
Shown(e, c, p, label, color) ==
    [raised |-> e, correlation |-> c, p_value |-> p, label |-> label, color |-> color]

\* the loop of app.py:332-345 over the companies, x the selected currency's
\* changes: the ways it can end, as what it has shown last
RECURSIVE detail_loop(_, _, _)
detail_loop(x, tickers, last) ==
    IF tickers = << >> THEN {last}
    ELSE UNION {
             IF r.raised # "none"
             THEN {Shown(r.raised, last.correlation, last.p_value, last.label, last.color)}
             ELSE LET l == get_correlation_label(r.correlation)
                  IN  detail_loop(x, Tail(tickers),
                                  Shown(l.raised, r.correlation, r.p_value, l.label, l.color))
             : r \in calculate_correlation(x, Column(stock_pct_change, Head(tickers)))}

\* app.py:278-395: the correlation tab, for the currency the select box holds
CorrelationTab ==
    /\ pc = "tabs"
    /\ \E k \in DOMAIN selected_currencies :
          \E last \in detail_loop(Column(currency_pct_change, selected_currencies[k]),
                                  selected_companies,
                                  Shown("none", correlation, p_value, corr_label, corr_color)) :
              /\ raised' = last.raised
              /\ correlation' = last.correlation
              /\ p_value' = last.p_value
              /\ corr_label' = last.label
              /\ corr_color' = last.color
              /\ pc' = IF last.raised = "none" THEN "alerts" ELSE "crashed"
    /\ calls' = calls \o [k \in DOMAIN selected_companies |-> [fn |-> "calculate_correlation"]]
    /\ UNCHANGED <<mailVars, alert_email, setup_info, appVars, changeVars, alertVars,
                   series1, series2, aligned, fetchVars>>

\* the daily changes a random walk can show: within a threshold, beyond it
SampleChanges == {Num(50), Num(-300)}

\* the tables df can stand for: each change of a walk is one of its values
Resolutions(df) ==
    {Frame(df.index, df.columns,
           [c \in DOMAIN df.data |->
               [i \in DOMAIN df.index |->
                   IF df.data[c][i].t = "defined" THEN f[c][i] ELSE df.data[c][i]]]) :
        f \in [DOMAIN df.data -> [DOMAIN df.index -> SampleChanges]]}

\* mutation of alerts_enabled: the tab scans whether or not alerts are on
alerts_enabled_always(active) == TRUE

\* app.py:400
alerts_enabled(active) == active

\* app.py:397-437: the alerts tab
AlertsTab ==
    /\ pc = "alerts"
    /\ IF alerts_enabled(alert_active)
       THEN /\ \E now \in Clock : setup_info' = setup_alert(alert_threshold, alert_email, now)
            /\ \E df \in Resolutions(currency_pct_change) :
                  alerts' = check_alerts(df, alert_threshold)
            /\ calls' = calls \o << [fn |-> "setup_alert", threshold |-> alert_threshold],
                                    [fn |-> "check_alerts", threshold |-> alert_threshold] >>
       ELSE UNCHANGED <<setup_info, alerts, calls>>
    /\ pc' = "end"
    /\ UNCHANGED <<mailVars, alert_email, appVars, changeVars, alert_threshold,
                   corrVars, labelVars, raised, fetchVars>>

NextApp ==
    \/ CheckDates
    \/ AlertSidebar
    \/ LoadCurrencies
    \/ LoadStocks
    \/ CalculateChanges
    \/ CorrelationTab
    \/ AlertsTab

SpecApp == InitApp /\ [][NextApp]_vars

-----------------------------------------------------------------------------
(* Specification of the notifier: a scan, then one of its records sent *)

\* the destinations a caller can pass
Recipients == {NoneString, "", "user@example.com"}

\* values of SMTP_PORT: '465', '0', 'abc' and the empty string
PortStrings == {<<52, 54, 53>>, <<48>>, <<97, 98, 99>>, << >>}

\* the environment in which the variables of names are set
Environment(names, port) ==
    [n \in names |-> CASE n = "SMTP_SERVER" -> "smtp.example.com"
                       [] n = "SMTP_PORT" -> port
                       [] n = "SMTP_USERNAME" -> "user"
                       [] OTHER -> "secret"]

\* the SMTP_* variables of a process environment: each one set or not
Environments ==
    {Environment(names, port) :
        names \in SUBSET {"SMTP_SERVER", "SMTP_PORT", "SMTP_USERNAME", "SMTP_PASSWORD"},
        port \in PortStrings}

\* a caller that adds the configured threshold to a record of the scan
WithThreshold(record, threshold) ==
    [currency |-> record.currency, date |-> record.date, change |-> record.change,
     direction |-> record.direction, threshold |-> threshold]

InitNotify ==
    /\ InitAlerts
    /\ fill_method = "pad"
    /\ Len(currency_pct_change.columns) = 1

SendEmailAlert ==
    /\ pc = "done"
    /\ \E n \in DOMAIN alerts, configured \in BOOLEAN, to \in Recipients,
          env \in Environments, transport_ok \in BOOLEAN :
          LET record == IF configured THEN WithThreshold(alerts[n], alert_threshold)
                        ELSE alerts[n]
              r == send_email_alert(record, to, env, transport_ok)
          IN  /\ alert_data' = record
              /\ recipient_email' = to
              /\ environ' = env
              /\ raised' = r.raised
              /\ returned' = r.returned
              /\ msg' = r.msg
              /\ smtp' = r.smtp
    /\ pc' = "sent"
    /\ UNCHANGED <<tabVars, fetchVars, appVars, changeVars, alertVars, corrVars, labelVars>>

NextNotify == CheckAlerts \/ SendEmailAlert

SpecNotify == InitNotify /\ [][NextNotify]_vars

-----------------------------------------------------------------------------
(* Specification of the four core functions called, one after the other,   *)
(* with empty or absent inputs                                              *)

\* None, a table without rows or a table without columns
EmptyOrNoneFrame(df, names, values) ==
    \/ df = NoneValue
    \/ IsFrame(df, names, values, MaxRows) /\ empty(df)

\* None or a series without values
EmptyOrNoneSeries(sr) == sr = NoneSeries \/ sr = Series(<< >>, << >>)

InitTotal ==
    /\ NoFetch
    /\ NoMail
    /\ pc = "changes"
    /\ fill_method = "pad"
    /\ selected_currencies = << >>
    /\ selected_companies = << >>
    /\ alert_active = FALSE
    /\ slider = 0
    /\ data_source = ""
    /\ alert_email = ""
    /\ setup_info = NoConfig
    /\ calls = << >>
    /\ currency_data = EmptyFrame
    /\ EmptyOrNoneFrame(stock_data, Tickers, PriceValues)
    /\ stock_pct_change = EmptyFrame
    /\ EmptyOrNoneFrame(currency_pct_change, Currencies, PctValues)
    /\ alert_threshold \in Thresholds
    /\ alerts = << >>
    /\ \/ EmptyOrNoneSeries(series1) /\ EmptyOrNoneSeries(series2)
       \/ EmptyOrNoneSeries(series1) /\ IsSeries(series2, {Num(2)}, MaxRows)
       \/ IsSeries(series1, {Num(2)}, MaxRows) /\ EmptyOrNoneSeries(series2)
    /\ aligned = << >>
    /\ correlation \in {NoneFloat, NaN}
    /\ p_value = NaN
    /\ corr_label = << >>
    /\ corr_color = ""
    /\ raised = "none"

\* calculate_percentage_changes(stock_data)
CallChanges ==
    /\ pc = "changes"
    /\ stock_pct_change' = calculate_percentage_changes(stock_data, fill_method)
    /\ calls' = Append(calls, [fn |-> "calculate_percentage_changes", raised |-> "none"])
    /\ pc' = "label"
    /\ UNCHANGED <<mailVars, alert_email, setup_info, fetchVars, selected_currencies,
                   selected_companies, alert_active, slider, stock_data, data_source,
                   changeVars, alertVars, corrVars, labelVars, raised>>

\* get_correlation_label(correlation)
CallLabel ==
    /\ pc = "label"
    /\ LET r == get_correlation_label(correlation)
       IN  /\ corr_label' = r.label
           /\ corr_color' = r.color
           /\ calls' = Append(calls, [fn |-> "get_correlation_label", raised |-> r.raised])
    /\ pc' = "correlate"
    /\ UNCHANGED <<mailVars, alert_email, setup_info, fetchVars, appVars, changeVars,
                   alertVars, corrVars, raised>>

\* calculate_correlation(series1, series2)
CallCorrelation ==
    /\ pc = "correlate"
    /\ \E r \in calculate_correlation(series1, series2) :
          /\ correlation' = r.correlation
          /\ p_value' = r.p_value
          /\ calls' = Append(calls, [fn |-> "calculate_correlation", raised |-> r.raised])
    /\ pc' = "alerts"
    /\ UNCHANGED <<mailVars, alert_email, setup_info, fetchVars, appVars, changeVars,
                   alertVars, series1, series2, aligned, labelVars, raised>>

\* check_alerts(currency_pct_change, alert_threshold)
CallAlerts ==
    /\ pc = "alerts"
    /\ alerts' = check_alerts(currency_pct_change, alert_threshold)
    /\ calls' = Append(calls, [fn |-> "check_alerts", raised |-> "none"])
    /\ pc' = "done"
    /\ UNCHANGED <<mailVars, alert_email, setup_info, fetchVars, appVars, changeVars,
                   alert_threshold, corrVars, labelVars, raised>>

NextTotal == CallChanges \/ CallLabel \/ CallCorrelation \/ CallAlerts

SpecTotal == InitTotal /\ [][NextTotal]_vars

-----------------------------------------------------------------------------
(* Claims about check_alerts (SpecAlerts) *)

\* the cells of a table: (column position, row position)
Cells(df) == (DOMAIN df.columns) \X (DOMAIN df.index)

CellValue(df, cell) == df.data[df.columns[cell[1]]][cell[2]]

\* a defined value whose magnitude is strictly above the threshold
Alerting(x, threshold) ==
    /\ x.t # "nan"
    /\ \/ x.t \in {"inf", "ninf"}
       \/ x.v > threshold
       \/ x.v < -threshold

\* the positions of alerts that report the cell
RecordsOf(df, cell) ==
    {n \in DOMAIN alerts :
        /\ alerts[n].currency = df.columns[cell[1]]
        /\ alerts[n].date = strftime(df.index[cell[2]])}

\* C1: the scan emits exactly one record for every cell whose value is
\* defined and strictly above the threshold in magnitude, and none for any
\* other cell; the record carries the cell's instrument, date, signed value
\* and the direction of its sign.
C1_OneRecordPerAlertingCell ==
    pc = "done" =>
        LET df == currency_pct_change
        IN  /\ \A cell \in Cells(df) :
                 LET x == CellValue(df, cell)
                 IN  IF Alerting(x, alert_threshold)
                     THEN /\ Cardinality(RecordsOf(df, cell)) = 1
                          /\ \A n \in RecordsOf(df, cell) :
                                 /\ alerts[n].change = x
                                 /\ alerts[n].direction =
                                        IF x.t = "inf" \/ (x.t = "num" /\ x.v > 0)
                                        THEN "increase" ELSE "decrease"
                     ELSE RecordsOf(df, cell) = {}
            /\ Len(alerts) =
                 Cardinality({cell \in Cells(df) :
                                 Alerting(CellValue(df, cell), alert_threshold)})

\* a scan that met a value equal to the threshold, an undefined value, and
\* alerts in both directions
C1_Witness ==
    /\ pc = "done"
    /\ \E cell \in Cells(currency_pct_change) :
           CellValue(currency_pct_change, cell) = Num(alert_threshold)
    /\ \E cell \in Cells(currency_pct_change) :
           CellValue(currency_pct_change, cell) = NaN
    /\ \E n, m \in DOMAIN alerts :
           alerts[n].direction = "increase" /\ alerts[m].direction = "decrease"

\* the day a date string names
DayOfString(s) == CHOOSE d \in Days : strftime(d) = s

\* the position of an instrument in the scan order
ColumnPosition(df, currency) == CHOOSE k \in DOMAIN df.columns : df.columns[k] = currency

\* C2: the returned records are in descending date order, and records of
\* one date are in the order in which their columns were scanned.
C2_DateDescendingStable ==
    pc = "done" =>
        \A n, m \in DOMAIN alerts :
            n < m =>
                \/ DayOfString(alerts[n].date) > DayOfString(alerts[m].date)
                \/ /\ alerts[n].date = alerts[m].date
                   /\ ColumnPosition(currency_pct_change, alerts[n].currency)
                        < ColumnPosition(currency_pct_change, alerts[m].currency)

\* a result with two records of one date and a record of an earlier year
C2_Witness ==
    /\ pc = "done"
    /\ \E n, m \in DOMAIN alerts :
           n # m /\ alerts[n].date = alerts[m].date
    /\ \E n, m \in DOMAIN alerts :
           DateOf(DayOfString(alerts[n].date)).year
               # DateOf(DayOfString(alerts[m].date)).year

-----------------------------------------------------------------------------
(* Claims about calculate_percentage_changes (SpecChanges) *)

Max(a, b) == IF a > b THEN a ELSE b

\* C3: the result has max(0, rows - 1) rows and the columns of the input;
\* an empty input gives an empty table.
C3_OneRowDropped ==
    pc = "done" =>
        IF empty(currency_data)
        THEN empty(currency_pct_change)
        ELSE /\ Len(currency_pct_change.index) = Max(0, Len(currency_data.index) - 1)
             /\ currency_pct_change.columns = currency_data.columns

\* C4: no cell of the result that follows a zero price is infinite or NaN.
C4_ZeroPriceUndefined ==
    pc = "done" =>
        \A k \in DOMAIN currency_data.columns, i \in DOMAIN currency_data.index :
            LET c == currency_data.columns[k]
            IN  (i > 1 /\ currency_data.data[c][i - 1] = Num(0)) =>
                    \A j \in DOMAIN currency_pct_change.index :
                        currency_pct_change.index[j] = currency_data.index[i] =>
                            isfinite(currency_pct_change.data[c][j])

-----------------------------------------------------------------------------
(* Claims about calculate_correlation and get_correlation_label *)

\* the timestamps present in both series at which neither value is NaN
UsableDays ==
    {d \in Days :
        \E i \in DOMAIN series1.index, j \in DOMAIN series2.index :
            /\ series1.index[i] = d
            /\ series2.index[j] = d
            /\ series1.values[i] # NaN
            /\ series2.values[j] # NaN}

\* C5: with fewer than two aligned pairs left after the intersection of the
\* timestamps and the removal of the NaN values, calculate_correlation
\* returns (nan, nan) and does not raise.
C5_TooFewPairsUndefined ==
    (pc # "correlate" /\ Cardinality(UsableDays) < 2) =>
        /\ raised = "none"
        /\ correlation = NaN
        /\ p_value = NaN

\* one pair left, of two series that share another timestamp with a NaN
C5_Witness ==
    /\ pc = "label"
    /\ Cardinality(UsableDays) = 1
    /\ Cardinality(Range(series1.index) \cap Range(series2.index)) = 2
    /\ correlation = NaN

Abs(v) == IF v < 0 THEN -v ELSE v

\* C6: the label is '{strength} {direction}' with Strong from 0.7, Moderate
\* from 0.3 and Weak below, Positive above zero and Negative otherwise, the
\* colours green/red, blue/orange and gray, and ('Insufficient data',
\* 'gray') for an undefined coefficient.
C6_LabelTable ==
    pc = "done" =>
        /\ raised = "none"
        /\ correlation = NaN =>
               corr_label = <<"Insufficient", "data">> /\ corr_color = "gray"
        /\ correlation # NaN =>
               LET c == correlation.v
               IN  /\ Len(corr_label) = 2
                   /\ corr_label[1] = "Strong" <=> Abs(c) >= 7000
                   /\ corr_label[1] = "Moderate" <=> (3000 <= Abs(c) /\ Abs(c) < 7000)
                   /\ corr_label[1] = "Weak" <=> Abs(c) < 3000
                   /\ corr_label[2] = IF c > 0 THEN "Positive" ELSE "Negative"
                   /\ corr_color =
                          CASE Abs(c) >= 7000 -> (IF c > 0 THEN "green" ELSE "red")
                            [] Abs(c) < 7000 /\ Abs(c) >= 3000 ->
                                   (IF c > 0 THEN "blue" ELSE "orange")
                            [] OTHER -> "gray"
                   /\ c = 7000 => corr_label = <<"Strong", "Positive">>
                   /\ c = 6999 => corr_label = <<"Moderate", "Positive">>
                   /\ c = 3000 => corr_label = <<"Moderate", "Positive">>
                   /\ c = 2999 => corr_label = <<"Weak", "Positive">>
                   /\ c = 0 => corr_label = <<"Weak", "Negative">>

\* the coefficient -0.3, on the boundary, labelled
C6_Witness ==
    /\ pc = "done"
    /\ correlation = Num(-3000)
    /\ corr_label = <<"Moderate", "Negative">>
    /\ corr_color = "orange"

-----------------------------------------------------------------------------
(* Claims about get_exchange_rates and get_stock_prices *)

\* the instruments of the call whose series the fallback produced
Synthetic == {id \in DOMAIN outcomes : outcomes[id] # "data"}

\* C8: whatever the downloads give, the call returns without an exception
\* and the table has a column for every instrument asked for.
C8_ColumnForEveryInstrument ==
    pc = "returned" =>
        /\ raised = "none"
        /\ \A k \in DOMAIN requested :
               /\ requested[k] \in Range(all_data.columns)
               /\ requested[k] \in DOMAIN all_data.data
               /\ Len(all_data.data[requested[k]]) = Len(all_data.index)

\* a call for two instruments returned, one download empty, one raising
C8_Witness ==
    /\ pc = "returned"
    /\ Len(requested) = 2
    /\ \E a, b \in DOMAIN outcomes : outcomes[a] = "empty" /\ outcomes[b] = "error"

\* C9: a fallback series has one price for every day from the start date to
\* the end date, wherever the instrument is in the list and whatever the
\* downloads before it gave.
C9_FallbackCoversRange ==
    pc = "returned" =>
        \A id \in Synthetic :
            /\ all_data.index = date_range(start_date, end_date)
            /\ \A i \in DOMAIN all_data.index : all_data.data[id][i].t = "sample"

\* C10: two calls with the same identifier, date range and reason give the
\* same fallback series, and the two reasons give different series for one
\* identifier and date range.
C10_FallbackDeterministic ==
    pc = "returned" =>
        \A before \in previous, now \in SyntheticSeries :
            (before.fn = now.fn /\ before.id = now.id) =>
                IF before.reason = now.reason
                THEN before.index = now.index /\ before.values = now.values
                ELSE before.index # now.index \/ before.values # now.values

\* the second half of C10 alone: the two reasons never give the same series
DifferentReasonDifferentSeries ==
    pc = "returned" =>
        \A before \in previous, now \in SyntheticSeries :
            (before.fn = now.fn /\ before.id = now.id /\ before.reason # now.reason) =>
                before.values # now.values

-----------------------------------------------------------------------------
(* Claims about the script app.py (SpecApp) *)

\* C7: once both tables are loaded, the data-source label reads simulated
\* when the series of any selected instrument came from the fallback, and
\* real-time only when every series was retrieved.
C7_SourceLabelTellsProvenance ==
    pc \in {"changes", "tabs"} =>
        IF \E id \in DOMAIN outcomes : outcomes[id] # "data"
        THEN data_source = Simulated
        ELSE data_source = RealTime

\* C11: while the start date is after the end date the script makes no call
\* of get_exchange_rates, get_stock_prices or any later step: it is at its
\* date check or stopped, and no table, coefficient, label, alert
\* configuration or alert has been produced.
C11_RejectedBeforeRetrieval ==
    start_date > end_date =>
        /\ pc \in {"dates", "stopped"}
        /\ calls = << >>
        /\ outcomes = << >>
        /\ currency_data = EmptyFrame
        /\ stock_data = EmptyFrame
        /\ currency_pct_change = EmptyFrame
        /\ stock_pct_change = EmptyFrame
        /\ corr_label = << >>
        /\ setup_info = NoConfig
        /\ alerts = << >>

\* a run with the end date before the start date, stopped by the date check
C11_Witness ==
    /\ pc = "stopped"
    /\ start_date > end_date
    /\ selected_currencies # << >>
    /\ selected_companies # << >>

\* C13: every call of setup_alert and of check_alerts the script makes has
\* a threshold above 0, the alert configuration it keeps has one, and a run
\* with alerts off ends without a configuration and without a scan.
C13_ThresholdPositiveAtCalls ==
    /\ \A i \in DOMAIN calls :
           calls[i].fn \in {"setup_alert", "check_alerts"} => calls[i].threshold > 0
    /\ setup_info # NoConfig => setup_info.threshold > 0
    /\ (pc = "end" /\ ~alert_active) =>
           /\ alert_threshold = 0
           /\ setup_info = NoConfig
           /\ alerts = << >>
           /\ \A i \in DOMAIN calls : calls[i].fn \notin {"setup_alert", "check_alerts"}

\* a run with alerts on that configured the alert and whose scan found one
C13_Witness ==
    /\ pc = "end"
    /\ alert_active
    /\ setup_info.threshold = slider
    /\ \E i \in DOMAIN calls : calls[i].fn = "check_alerts" /\ calls[i].threshold = slider
    /\ alerts # << >>

-----------------------------------------------------------------------------
(* Claims about send_email_alert (SpecNotify) *)

\* a delivery credential that the environment does not give
CredentialMissing ==
    \E n \in {"SMTP_SERVER", "SMTP_USERNAME", "SMTP_PASSWORD"} : n \notin DOMAIN environ

\* C12: send_email_alert raises nothing and returns a boolean, whatever the
\* record, the destination and the SMTP_* variables; without a destination
\* or without a credential it returns False and opens no SMTP session; when
\* the session fails it returns False.
C12_NotifierNeverRaises ==
    pc = "sent" =>
        /\ raised = "none"
        /\ returned \in {"True", "False"}
        /\ (~Truthy(recipient_email) \/ CredentialMissing) =>
               (returned = "False" /\ smtp = "none")
        /\ smtp = "failed" => returned = "False"

\* the environment gives a server, a user, a password and a usable port
CredentialsComplete ==
    /\ ~CredentialMissing
    /\ "SMTP_PORT" \in DOMAIN environ =>
           (int(environ["SMTP_PORT"]).raised = "none" /\ int(environ["SMTP_PORT"]).v # 0)

\* C18: a record as check_alerts makes it has every key send_email_alert
\* reads, and with a destination and complete credentials the call renders
\* the message and opens the SMTP session.
C18_ScanRecordsDispatchable ==
    (/\ pc = "sent"
     /\ DOMAIN alert_data = {"currency", "date", "change", "direction"}
     /\ Truthy(recipient_email)
     /\ CredentialsComplete) =>
        /\ SubjectKeys \cup BodyKeys \subseteq DOMAIN alert_data
        /\ raised = "none"
        /\ msg # NoMessage
        /\ smtp # "none"

\* a record with the threshold added is rendered and sent
ConfiguredRecordSent ==
    /\ pc = "sent"
    /\ "threshold" \in DOMAIN alert_data
    /\ returned = "True"
    /\ msg.body.threshold = alert_threshold

-----------------------------------------------------------------------------
(* Claims about the core functions on empty or absent input (SpecTotal) *)

\* C14: called with an empty or absent input, none of the four core
\* functions raises, and each result is empty or undefined: an empty table,
\* (nan, nan), 'Insufficient data', no alerts.
C14_TotalOnEmptyInput ==
    /\ \A i \in DOMAIN calls : calls[i].raised = "none"
    /\ pc = "done" =>
           /\ empty(stock_pct_change)
           /\ corr_label = <<"Insufficient", "data">>
           /\ correlation = NaN /\ p_value = NaN
           /\ alerts = << >>

\* the part of C14 that holds: the two table functions on any empty or absent
\* table, the correlation of series that are empty but present, and the
\* label of an undefined coefficient
TotalWherePresent ==
    /\ \A i \in DOMAIN calls :
           calls[i].fn \in {"calculate_percentage_changes", "check_alerts"} =>
               calls[i].raised = "none"
    /\ pc = "done" =>
           /\ empty(stock_pct_change)
           /\ alerts = << >>
           /\ (series1 # NoneSeries /\ series2 # NoneSeries) =>
                  (calls[3].raised = "none" /\ correlation = NaN /\ p_value = NaN)
           /\ calls[2].raised = "none" <=> corr_label = <<"Insufficient", "data">>

-----------------------------------------------------------------------------
(* Claims about the independence of columns, pairs and instruments *)

\* the table of one column of df
OneColumn(df, c) == Frame(df.index, << c >>, [x \in {c} |-> df.data[c]])

\* C15: the changes of an instrument in the result are the changes the
\* function gives for the table of that instrument alone: the same dates
\* with the same values, whatever the other columns hold.
C15_ColumnsIndependent ==
    (pc = "done" /\ ~empty(currency_data)) =>
        \A k \in DOMAIN currency_data.columns :
            LET c == currency_data.columns[k]
                alone == calculate_percentage_changes(OneColumn(currency_data, c),
                                                      fill_method)
            IN  /\ currency_pct_change.index = alone.index
                /\ currency_pct_change.data[c] = alone.data[c]

\* the timestamps present in both series at which both values are finite
FiniteDays ==
    {d \in Days :
        \E i \in DOMAIN series1.index, j \in DOMAIN series2.index :
            /\ series1.index[i] = d
            /\ series2.index[j] = d
            /\ isfinite(series1.values[i])
            /\ isfinite(series2.values[j])}

\* C16: the pairs calculate_correlation counts and correlates are those of
\* the timestamps present in both series at which both values are finite;
\* with fewer than two of them the result is (nan, nan).
C16_OnlyFinitePairs ==
    pc # "correlate" =>
        /\ {aligned[i].date : i \in DOMAIN aligned} = FiniteDays
        /\ \A i \in DOMAIN aligned : isfinite(aligned[i].x) /\ isfinite(aligned[i].y)
        /\ Cardinality(FiniteDays) < 2 => (correlation = NaN /\ p_value = NaN)

\* C17: in one process and over one date range, the fallback series of an
\* identifier for a reason is the same in two calls, whichever other
\* instruments the calls ask for, in whatever order and with whatever
\* downloads; and its generator is seeded from the identifier.
C17_FallbackUnperturbed ==
    pc = "returned" =>
        /\ \A before \in previous, now \in SyntheticSeries :
               (before.fn = now.fn /\ before.id = now.id /\ before.reason = now.reason) =>
                   (before.index = now.index /\ before.values = now.values)
        /\ \A now \in SyntheticSeries :
               \A i \in DOMAIN now.values : now.values[i].walk.seed.hash = now.id

\* what does hold of two calls in one process: the draws of a fallback
\* series are those of its own seed, so two series of one identifier and
\* reason over the same rows are equal
SameRowsSameSeries ==
    pc = "returned" =>
        \A before \in previous, now \in SyntheticSeries :
            (/\ before.fn = now.fn /\ before.id = now.id /\ before.reason = now.reason
             /\ before.index = now.index) =>
                before.values = now.values

====
